---- MODULE Spec2Model ----
(***************************************************************************)
(* BluePrint Insight: the batch runner of App.tsx (processFile,            *)
(* processAll, updateFileStatus, removeFile, handleFiles), the extraction  *)
(* orchestrator extractData, the settings form that feeds it, and the two  *)
(* provider adapters extractFromGemini and extractFromOpenAI.              *)
(*                                                                         *)
(* React semantics the model relies on: an event handler runs to           *)
(* completion on the state of the render it was created in (its closure    *)
(* over `state`), functional setState updates are applied in order to the  *)
(* latest state, and the continuation of an async function after an await  *)
(* runs, with every microtask it triggers, before the next event.          *)
(***************************************************************************)
EXTENDS Integers, Sequences, FiniteSets, TLC

\* Bounds of the model.
MaxDocs == 3     \* documents ever added to the list
MaxInv == 3      \* processFile activations ever started
MaxRemoved == 1  \* documents ever removed from the list

\* `undefined` for the optional fields of FileStatus.
Undefined == "undefined"
NoResult == <<>>
\* The parsed provider response for document id.
ResultOf(id) == <<id>>

\* Messages of the errors the adapters and the file reader can raise.
\* The empty message stands for an error object without a message.
MissingKeyMessage == "API Key is missing"
FallbackMessage == "Processing failed"
ProviderMessages == {"provider error", ""}

NoConfig == [present |-> FALSE, baseUrl |-> "", apiKey |-> "", model |-> ""]
FieldValues == {"", "v"}
Providers == {"gemini", "openai"}

DefaultSettings == [provider |-> "gemini", openai |-> NoConfig]
\* Settings saved with every field of the endpoint filled in.
OpenAISettings ==
    [provider |-> "openai",
     openai |-> [present |-> TRUE, baseUrl |-> "v", apiKey |-> "v", model |-> "v"]]

\* The templates of state.templates, each standing for its field list.
DefaultTemplate == "default"
Templates == {DefaultTemplate, "imported"}

VARIABLES
    files,           \* state.files: the document list
    nextId,          \* number of documents created so far (ids 1..nextId)
    globalLoading,   \* the batch in-progress flag
    runSnapshot,     \* the state closed over by the running processAll
    toProcess,       \* the selection of the running processAll
    pos,             \* how many documents of toProcess the loop has started
    inv,             \* the processFile activations that have not returned
    nInv,            \* number of processFile activations started so far
    settings,        \* state.settings
    envApiKey,       \* whether process.env.API_KEY is set
    editedSettings,  \* the form state of SettingsPage
    lastCall,        \* the last direct call of extractData: settings and route
    call,            \* one extraction followed through its adapter
    wire,            \* one document payload followed from the reader to the request
    activeTemplate   \* the template state.activeTemplateId selects in state.templates

vars == <<files, nextId, globalLoading, runSnapshot, toProcess, pos, inv, nInv,
          settings, envApiKey, editedSettings, lastCall, call, wire, activeTemplate>>


----------------------------------------------------------------------------
\* Sequence helpers.

Ids(fs) == {fs[k].id : k \in DOMAIN fs}
IdSeq(fs) == [k \in DOMAIN fs |-> fs[k].id]

\* files.find(f => f.id === id): the index of the record, 0 if none.
Find(fs, id) ==
    IF \E k \in DOMAIN fs : fs[k].id = id
    THEN CHOOSE k \in DOMAIN fs : fs[k].id = id /\ \A j \in 1..(k-1) : fs[j].id # id
    ELSE 0

Status(fs, id) == fs[Find(fs, id)].status

\* What a handler's closure over `state` is read for later on: the records
\* of state.files (id and file; their status is read by processAll's
\* selection only, before the first await) and state.settings.
Closure(fs, s) ==
    [files |-> [k \in DOMAIN fs |-> [id |-> fs[k].id]], settings |-> s,
     template |-> activeTemplate]

NewFile(id) ==
    [id |-> id, status |-> "pending", result |-> NoResult, error |-> Undefined]

----------------------------------------------------------------------------
\* updateFileStatus(id, updates): merges the updates into the record with
\* that id. An update names the fields it sets; the others are kept.

Merge(f, upd) ==
    [id |-> f.id,
     status |-> IF "status" \in DOMAIN upd THEN upd.status ELSE f.status,
     result |-> IF "result" \in DOMAIN upd THEN upd.result ELSE f.result,
     error |-> IF "error" \in DOMAIN upd THEN upd.error ELSE f.error]

updateFileStatus_AllRecords(fs, id, upd) == [k \in DOMAIN fs |-> Merge(fs[k], upd)]

updateFileStatus_Upsert(fs, id, upd) ==
    IF id \in Ids(fs)
    THEN [k \in DOMAIN fs |-> IF fs[k].id = id THEN Merge(fs[k], upd) ELSE fs[k]]
    ELSE Append(fs, Merge(NewFile(id), upd))

updateFileStatus(fs, id, upd) ==
    [k \in DOMAIN fs |-> IF fs[k].id = id THEN Merge(fs[k], upd) ELSE fs[k]]

\* removeFile(id)
removeFileFrom(fs, id) == SelectSeq(fs, LAMBDA f : f.id # id)

----------------------------------------------------------------------------
\* processAll's selection (lines 151-156).

hasPending_OnlyPending(fs) == \E k \in DOMAIN fs : fs[k].status = "pending"

hasPending(fs) ==
    \E k \in DOMAIN fs : fs[k].status = "pending" \/ fs[k].status = "error"

Selection(fs) ==
    IdSeq(SelectSeq(fs, LAMBDA f :
        IF f.status = "processing" THEN FALSE
        ELSE IF hasPending(fs) THEN f.status = "pending" \/ f.status = "error"
        ELSE TRUE))

\* The for-await loop of processAll: the documents whose processFile is
\* called before the loop suspends again, given that p of them were started.
LoopSlice_NoAwait(sel, p) == SubSeq(sel, p + 1, Len(sel))

LoopSlice_CurrentList(sel, p) == IF p < Len(files) THEN <<files[p + 1].id>> ELSE <<>>

LoopSlice(sel, p) == IF p < Len(sel) THEN <<sel[p + 1]>> ELSE <<>>

----------------------------------------------------------------------------
\* extractData's routing (extractionService lines 163-173): the adapter the
\* call is handed to. An object is truthy whatever its fields hold.

extractData(s) ==
    IF s.provider = "openai" /\ s.openai.present THEN "openai" ELSE "gemini"

\* err.message || 'Processing failed' (processFile's catch).
ErrorMessage_NoFallback(m) == m

ErrorMessage(m) == IF m = "" \/ m = Undefined THEN FallbackMessage ELSE m

----------------------------------------------------------------------------
\* One activation of processFile (lines 133-147).  pc is the await it is
\* suspended at: "encode" (fileToBase64) or "extract" (extractData, a
\* provider request is out).  listed records whether the document was in
\* the list when processFile was called.  inv holds the activations in the
\* order they started; an activation that returns leaves it.

NewInvocation(id, origin, cfg, tpl, isListed) ==
    [doc |-> id, origin |-> origin, pc |-> "encode", route |-> "none",
     requests |-> 0, cfg |-> cfg, tpl |-> tpl, listed |-> isListed]

\* The adapter sends its one request (generateContent / fetch).
IssueRequest(rec, route) ==
    [rec EXCEPT !.pc = "extract", !.route = route, !.requests = @ + 1]

Without(q, i) == SubSeq(q, 1, i - 1) \o SubSeq(q, i + 1, Len(q))

\* The awaited call of activation i returns or throws: try/catch of lines
\* 139-146 records the outcome and processFile returns; nothing is
\* re-issued.
Settle_RetryOnce(q, i, outcome) ==
    IF outcome = "failed" /\ q[i].requests = 1
    THEN [q EXCEPT ![i].requests = @ + 1]
    ELSE Without(q, i)

Settle(q, i, outcome) == Without(q, i)

\* The synchronous part of processFile(id), run by a handler whose closure
\* holds the state snap: lines 134-137 and the call of fileToBase64.
\* st carries the latest files and the activations.
processFile_LatestConfig(st, snap, id, origin) ==
    IF Find(snap.files, id) = 0 THEN st
    ELSE [st EXCEPT
            !.files = updateFileStatus(@, id, [status |-> "processing", error |-> Undefined]),
            !.inv = Append(@, NewInvocation(id, origin, settings, activeTemplate,
                                            id \in Ids(st.files))),
            !.n = @ + 1]

processFile(st, snap, id, origin) ==
    IF Find(snap.files, id) = 0 THEN st
    ELSE [st EXCEPT
            !.files = updateFileStatus(@, id, [status |-> "processing", error |-> Undefined]),
            !.inv = Append(@, NewInvocation(id, origin, snap.settings, snap.template,
                                            id \in Ids(st.files))),
            !.n = @ + 1]

RECURSIVE StartSlice(_, _, _)
StartSlice(st, snap, slice) ==
    IF slice = <<>> THEN st
    ELSE StartSlice(processFile(st, snap, Head(slice), "batch"), snap, Tail(slice))

\* The loop of processAll (lines 158-161) from the point where st.pos
\* documents were started until it suspends at the next await, or ends and
\* resets the in-progress flag.
RECURSIVE RunLoop(_, _, _)
RunLoop(st, snap, sel) ==
    LET slice == LoopSlice(sel, st.pos) IN
    IF slice = <<>> THEN [st EXCEPT !.loading = FALSE]
    ELSE LET started == StartSlice(st, snap, slice)
             advanced == [started EXCEPT !.pos = @ + Len(slice)]
         IN IF advanced.n > st.n THEN advanced
            ELSE RunLoop(advanced, snap, sel)

NoSnapshot == [files |-> <<>>, settings |-> DefaultSettings, template |-> DefaultTemplate]
NoCall == [called |-> FALSE, settings |-> DefaultSettings, route |-> "none"]
\* No extraction is being followed.
NoExtraction == [pc |-> "idle"]
\* No payload is being followed.
NoWire == [pc |-> "idle"]

\* The state after a stretch of processAll: once the loop has ended the
\* activation of processAll, with its selection and its closure, is gone.
AfterLoop_KeepsFlag(st, snap, sel) ==
    /\ st.n <= MaxInv
    /\ files' = st.files
    /\ inv' = st.inv
    /\ nInv' = st.n
    /\ globalLoading' = TRUE
    /\ pos' = IF st.loading THEN st.pos ELSE 0
    /\ toProcess' = IF st.loading THEN sel ELSE <<>>
    /\ runSnapshot' = IF st.loading THEN snap ELSE NoSnapshot

AfterLoop(st, snap, sel) ==
    /\ st.n <= MaxInv
    /\ files' = st.files
    /\ inv' = st.inv
    /\ nInv' = st.n
    /\ globalLoading' = st.loading
    /\ pos' = IF st.loading THEN st.pos ELSE 0
    /\ toProcess' = IF st.loading THEN sel ELSE <<>>
    /\ runSnapshot' = IF st.loading THEN snap ELSE NoSnapshot

----------------------------------------------------------------------------
Init ==
    /\ files = <<>>
    /\ nextId = 0
    /\ globalLoading = FALSE
    /\ runSnapshot = NoSnapshot
    /\ toProcess = <<>>
    /\ pos = 0
    /\ inv = <<>>
    /\ nInv = 0
    /\ settings = DefaultSettings
    /\ envApiKey \in BOOLEAN
    /\ editedSettings = settings
    /\ lastCall = NoCall
    /\ call = NoExtraction
    /\ wire = NoWire
    /\ activeTemplate = DefaultTemplate

\* handleFiles (lines 77-93): n new pending documents are appended.
handleFiles(n) ==
    /\ nextId + n <= MaxDocs
    /\ files' = files \o [k \in 1..n |-> NewFile(nextId + k)]
    /\ nextId' = nextId + n
    /\ UNCHANGED <<globalLoading, runSnapshot, toProcess, pos, inv, nInv,
                   settings, envApiKey, editedSettings, lastCall, call, wire, activeTemplate>>

\* removeFile (lines 116-122).
removeFile(id) ==
    /\ id \in Ids(files)
    /\ nextId - Len(files) < MaxRemoved
    /\ files' = removeFileFrom(files, id)
    /\ UNCHANGED <<nextId, globalLoading, runSnapshot, toProcess, pos, inv, nInv,
                   settings, envApiKey, editedSettings, lastCall, call, wire, activeTemplate>>

\* The process button of a document card: enabled unless the card shows
\* processing; calls processFile of the current render.
processFileClick(id) ==
    /\ id \in Ids(files)
    /\ Status(files, id) # "processing"
    /\ nInv < MaxInv
    /\ LET st == processFile([files |-> files, inv |-> inv, n |-> nInv],
                             Closure(files, settings), id, "manual")
       IN /\ files' = st.files
          /\ inv' = st.inv
          /\ nInv' = st.n
    /\ UNCHANGED <<nextId, globalLoading, runSnapshot, toProcess, pos,
                   settings, envApiKey, editedSettings, lastCall, call, wire, activeTemplate>>

\* The batch button is disabled while a run is in progress and while the
\* list is empty (lines 363-366).
processAllDisabled_IgnoresLoading == files = <<>>

processAllDisabled == globalLoading \/ files = <<>>

\* A click on the batch button: processAll (lines 149-162) up to its first
\* await.
processAll ==
    /\ ~processAllDisabled
    /\ LET snap == Closure(files, settings)
           sel == Selection(files)
       IN AfterLoop(RunLoop([files |-> files, inv |-> inv, n |-> nInv,
                             pos |-> 0, loading |-> TRUE], snap, sel),
                    snap, sel)
    /\ UNCHANGED <<nextId, settings, envApiKey, editedSettings, lastCall, call, wire, activeTemplate>>

\* The continuation of processFile once its awaited call has an outcome:
\* the status update, and when that lets the activation the batch loop
\* awaits return, the rest of the loop.
Finish(i, upd, outcome) ==
    LET rec == inv[i]
        fs1 == updateFileStatus(files, rec.doc, upd)
        inv1 == Settle(inv, i, outcome)
    IN IF rec.origin = "batch" /\ globalLoading /\ Len(inv1) < Len(inv)
       THEN AfterLoop(RunLoop([files |-> fs1, inv |-> inv1, n |-> nInv,
                               pos |-> pos, loading |-> TRUE], runSnapshot, toProcess),
                      runSnapshot, toProcess)
       ELSE /\ files' = fs1
            /\ inv' = inv1
            /\ UNCHANGED <<nInv, pos, globalLoading, toProcess, runSnapshot>>

Failure(i, m) == Finish(i, [status |-> "error", error |-> ErrorMessage(m)], "failed")

\* fileToBase64 resolves and extractData is called with the closure's
\* settings: the structured adapter throws at once without an API key,
\* otherwise the adapter's request goes out.
EncodeDone(i) ==
    /\ i \in DOMAIN inv
    /\ inv[i].pc = "encode"
    /\ LET route == extractData(inv[i].cfg) IN
       IF route = "gemini" /\ ~envApiKey
       THEN Failure(i, MissingKeyMessage)
       ELSE /\ inv' = [inv EXCEPT ![i] = IssueRequest(@, route)]
            /\ UNCHANGED <<files, nInv, pos, globalLoading, toProcess, runSnapshot>>
    /\ UNCHANGED <<nextId, settings, envApiKey, editedSettings, lastCall, call, wire, activeTemplate>>

\* fileToBase64 rejects with the reader's error event (no message).
EncodeFail(i) ==
    /\ i \in DOMAIN inv
    /\ inv[i].pc = "encode"
    /\ Failure(i, Undefined)
    /\ UNCHANGED <<nextId, settings, envApiKey, editedSettings, lastCall, call, wire, activeTemplate>>

\* The provider answers and the adapter returns the parsed result.
ProviderOk(i) ==
    /\ i \in DOMAIN inv
    /\ inv[i].pc = "extract"
    /\ Finish(i, [status |-> "completed", result |-> ResultOf(inv[i].doc)], "completed")
    /\ UNCHANGED <<nextId, settings, envApiKey, editedSettings, lastCall, call, wire, activeTemplate>>

\* The adapter throws an error with message m.
ProviderFail(i, m) ==
    /\ i \in DOMAIN inv
    /\ inv[i].pc = "extract"
    /\ Failure(i, m)
    /\ UNCHANGED <<nextId, settings, envApiKey, editedSettings, lastCall, call, wire, activeTemplate>>

Next ==
    \/ \E n \in 1..MaxDocs : handleFiles(n)
    \/ \E id \in 1..MaxDocs : removeFile(id)
    \/ \E id \in 1..MaxDocs : processFileClick(id)
    \/ processAll
    \/ \E i \in 1..MaxInv : EncodeDone(i)
    \/ \E i \in 1..MaxInv : EncodeFail(i)
    \/ \E i \in 1..MaxInv : ProviderOk(i)
    \/ \E i \in 1..MaxInv, m \in ProviderMessages : ProviderFail(i, m)

Spec == Init /\ [][Next]_vars

----------------------------------------------------------------------------
\* The batch runner under the assumption that every fileToBase64 and every
\* provider call settles.  So that no activation is ever held back by the
\* bound MaxInv, a click is taken only when the activations it starts, and
\* those the running batch still has to start, fit into the bound.

processAllWithin ==
    /\ nInv + Len(Selection(files)) <= MaxInv
    /\ processAll

processFileClickWithin(id) ==
    /\ nInv + (Len(toProcess) - pos) < MaxInv
    /\ processFileClick(id)

\* The awaited call of activation i settles.
Settles(i) ==
    \/ EncodeDone(i)
    \/ EncodeFail(i)
    \/ ProviderOk(i)
    \/ \E m \in ProviderMessages : ProviderFail(i, m)

NextLive ==
    \/ \E n \in 1..MaxDocs : handleFiles(n)
    \/ \E id \in 1..MaxDocs : removeFile(id)
    \/ \E id \in 1..MaxDocs : processFileClickWithin(id)
    \/ processAllWithin
    \/ \E i \in 1..MaxInv : EncodeDone(i)
    \/ \E i \in 1..MaxInv : EncodeFail(i)
    \/ \E i \in 1..MaxInv : ProviderOk(i)
    \/ \E i \in 1..MaxInv, m \in ProviderMessages : ProviderFail(i, m)

SpecLive == Init /\ [][NextLive]_vars /\ \A i \in 1..MaxInv : WF_vars(Settles(i))

----------------------------------------------------------------------------
\* The batch runner while the configuration changes under it.

\* updateSettings (App.tsx lines 263-265), called by the settings page.
updateSettings(s) ==
    /\ s # settings
    /\ settings' = s
    /\ UNCHANGED <<files, nextId, globalLoading, runSnapshot, toProcess, pos, inv, nInv,
                   envApiKey, editedSettings, lastCall, call, wire, activeTemplate>>

\* The active template changes: another one is selected (lines 322, 348,
\* 496), or the active one is saved with new fields or deleted.
changeTemplate(t) ==
    /\ t # activeTemplate
    /\ activeTemplate' = t
    /\ UNCHANGED <<files, nextId, globalLoading, runSnapshot, toProcess, pos, inv, nInv,
                   settings, envApiKey, editedSettings, lastCall, call, wire>>

NextReconfig ==
    \/ \E n \in 1..MaxDocs : handleFiles(n)
    \/ \E id \in 1..MaxDocs : removeFile(id)
    \/ \E id \in 1..MaxDocs : processFileClick(id)
    \/ processAll
    \/ \E i \in 1..MaxInv : EncodeDone(i)
    \/ \E i \in 1..MaxInv : EncodeFail(i)
    \/ \E i \in 1..MaxInv : ProviderOk(i)
    \/ \E i \in 1..MaxInv, m \in ProviderMessages : ProviderFail(i, m)
    \/ \E s \in {DefaultSettings, OpenAISettings} : updateSettings(s)
    \/ \E t \in Templates : changeTemplate(t)

SpecReconfig == Init /\ [][NextReconfig]_vars

----------------------------------------------------------------------------
\* The settings form (SettingsPage) and the orchestrator called with the
\* saved settings.

\* updateOpenAI(key, value) (lines 22-32): the endpoint object is created
\* with '' for the absent fields, then the named key is set.
updateOpenAI(key, value) ==
    /\ editedSettings' =
         [editedSettings EXCEPT !.openai = [[@ EXCEPT !.present = TRUE] EXCEPT ![key] = value]]
    /\ UNCHANGED <<files, nextId, globalLoading, runSnapshot, toProcess, pos, inv, nInv,
                   settings, envApiKey, lastCall, call, wire, activeTemplate>>

\* The provider buttons of the form.
selectProvider(p) ==
    /\ editedSettings' = [editedSettings EXCEPT !.provider = p]
    /\ UNCHANGED <<files, nextId, globalLoading, runSnapshot, toProcess, pos, inv, nInv,
                   settings, envApiKey, lastCall, call, wire, activeTemplate>>

\* handleSave -> onSave -> updateSettings (App.tsx lines 263-265).
handleSave ==
    /\ settings' = editedSettings
    /\ UNCHANGED <<files, nextId, globalLoading, runSnapshot, toProcess, pos, inv, nInv,
                   envApiKey, editedSettings, lastCall, call, wire, activeTemplate>>

\* extractData is called with state.settings; the call and the adapter it
\* was handed to are recorded.
extractDataCall ==
    /\ lastCall' = [called |-> TRUE, settings |-> settings, route |-> extractData(settings)]
    /\ UNCHANGED <<files, nextId, globalLoading, runSnapshot, toProcess, pos, inv, nInv,
                   settings, envApiKey, editedSettings, call, wire, activeTemplate>>

NextSettings ==
    \/ \E key \in {"baseUrl", "apiKey", "model"}, value \in FieldValues : updateOpenAI(key, value)
    \/ \E p \in Providers : selectProvider(p)
    \/ handleSave
    \/ extractDataCall

SpecSettings == Init /\ [][NextSettings]_vars

----------------------------------------------------------------------------
\* The provider adapters (extractionService lines 175-287), followed for one
\* extraction from the call of the adapter to the status processFile records.

\* Bounds of the adapter inputs.
MaxFields == 2   \* fields of the active template
MaxUrl == 4      \* length of config.baseUrl, in the units of UrlChars

\* JavaScript errors: the class that `instanceof` tests and the message.
Error(class, message) == [class |-> class, message |-> message]
SyntaxMessage == "Unexpected token in JSON"
NullReadMessage == "Cannot read properties of null"
UndefinedReadMessage == "Cannot read properties of undefined"
NoContentMessage == "No content received from AI provider"
FailedToFetch == "Failed to fetch"
NetworkMessage == "Network error: Failed to connect to the API server. Check URL and connection."
\* The message of the TypeError a failed fetch rejects with is chosen by the
\* browser: "Failed to fetch" is the wording of one engine.
TransportMessages == {FailedToFetch, "Load failed"}

\* process.env.API_KEY and the test `!apiKey` of line 183.
ApiKeys == {Undefined, "", "k"}

HasKey_OnlyUndefined(key) == key # Undefined

HasKey(key) == key # Undefined /\ key # ""

\* JSON.parse: a JSON text gives its value, anything else (the empty text
\* and undefined included) throws a SyntaxError.  A value is written as the
\* one-element tuple of its JSON text.
JsonTexts == {"{}", "{\"a\":1}", "{\"a\":12,\"b\":null}"}
Texts == JsonTexts \cup {Undefined, "", "not json"}
ValueOf(text) == <<text>>
\* The entries of an object value: its keys and, as text, their values.
Entries(value) ==
    IF value = ValueOf("{\"a\":1}") THEN [k \in {"a"} |-> "1"]
    ELSE IF value = ValueOf("{\"a\":12,\"b\":null}")
         THEN [k \in {"a", "b"} |-> IF k = "a" THEN "12" ELSE "null"]
    ELSE <<>>

JSONparse_DropsNulls(text) ==
    IF text \in JsonTexts
    THEN [ok |-> TRUE,
          value |-> IF text = "{\"a\":12,\"b\":null}" THEN ValueOf("{\"a\":12}") ELSE ValueOf(text),
          error |-> Error("none", "")]
    ELSE [ok |-> FALSE, value |-> NoResult, error |-> Error("SyntaxError", SyntaxMessage)]

JSONparse(text) ==
    IF text \in JsonTexts
    THEN [ok |-> TRUE, value |-> ValueOf(text), error |-> Error("none", "")]
    ELSE [ok |-> FALSE, value |-> NoResult, error |-> Error("SyntaxError", SyntaxMessage)]

Returned(value) == [kind |-> "ok", value |-> value, error |-> Error("none", "")]
Thrown(e) == [kind |-> "fail", value |-> NoResult, error |-> e]
Pending == [kind |-> "none", value |-> NoResult, error |-> Error("none", "")]
FromParse(r) == IF r.ok THEN Returned(r.value) ELSE Thrown(r.error)

----------------------------------------------------------------------------
\* The response schema of extractFromGemini (lines 186-198; the same loop
\* is in geminiService.ts lines 18-48).

FieldTypes == {"STRING", "NUMBER", "BOOLEAN", "ARRAY_STRING", "ARRAY_NUMBER"}
\* A kind outside the enumeration: handleFileChange imports a template
\* after checking only its name and that fields is an array.
ImportedTypes == {"DATE"}
Keys == {"a", "b"}
FieldLists ==
    UNION {[1..n -> [key : Keys, type : FieldTypes \cup ImportedTypes]] : n \in 0..MaxFields}

\* The descriptor a case of the switch stores (the description is left out).
Descriptor(type) ==
    CASE type = "STRING" -> [type |-> "STRING", items |-> "none"]
      [] type = "NUMBER" -> [type |-> "NUMBER", items |-> "none"]
      [] type = "BOOLEAN" -> [type |-> "BOOLEAN", items |-> "none"]
      [] type = "ARRAY_STRING" -> [type |-> "ARRAY", items |-> "STRING"]
      [] type = "ARRAY_NUMBER" -> [type |-> "ARRAY", items |-> "NUMBER"]

\* properties[key] = d
SetProperty(props, key, d) ==
    [k \in DOMAIN props \cup {key} |-> IF k = key THEN d ELSE props[k]]

EmptySchema == [properties |-> <<>>, required |-> <<>>]

\* One turn of fields.forEach: the key is pushed, and the switch, which has
\* no default case, stores a descriptor for the five kinds it names.
AddField(schema, field) ==
    [properties |-> IF field.type \in FieldTypes
                    THEN SetProperty(schema.properties, field.key, Descriptor(field.type))
                    ELSE schema.properties,
     required |-> Append(schema.required, field.key)]

RECURSIVE CompileFrom(_, _)
CompileFrom(schema, fields) ==
    IF fields = <<>> THEN schema
    ELSE CompileFrom(AddField(schema, Head(fields)), Tail(fields))

CompileSchema(fields) == CompileFrom(EmptySchema, fields)

----------------------------------------------------------------------------
\* The request URL of extractFromOpenAI (lines 231-234).  A URL is a
\* sequence of units: "B" a stretch without slash or blank at its end
\* (https://api.example.com/v1), "/" a slash, "C" the text chat/completions
\* and " " a blank.

UrlChars == {"B", "/", "C", " "}
Suffix == <<"/", "C">>
Urls == UNION {[1..n -> UrlChars] : n \in 0..MaxUrl}

EndsWith(u, suffix) ==
    /\ Len(u) >= Len(suffix)
    /\ SubSeq(u, Len(u) - Len(suffix) + 1, Len(u)) = suffix

RECURSIVE TrimStart(_)
TrimStart(u) == IF u # <<>> /\ Head(u) = " " THEN TrimStart(Tail(u)) ELSE u

RECURSIVE TrimEnd(_)
TrimEnd(u) ==
    IF u # <<>> /\ u[Len(u)] = " " THEN TrimEnd(SubSeq(u, 1, Len(u) - 1)) ELSE u

\* String.prototype.trim
Trim(u) == TrimEnd(TrimStart(u))

\* url.replace(/\/+$/, '')
RECURSIVE StripSlashes(_)
StripSlashes(u) ==
    IF u # <<>> /\ u[Len(u)] = "/" THEN StripSlashes(SubSeq(u, 1, Len(u) - 1)) ELSE u

ChatUrl_AlwaysAppend(base) == StripSlashes(Trim(base)) \o Suffix

ChatUrl(base) ==
    LET url == Trim(base)
    IN IF EndsWith(url, Suffix) THEN url ELSE StripSlashes(url) \o Suffix

----------------------------------------------------------------------------
\* What the provider sends back.

\* The body of an HTTP response, as response.json() reads it: not JSON, the
\* JSON null, or an object with its error.message (Undefined when there is
\* none), how far its choices[0].message.content is present, and that
\* content: a text, or an object written as its JSON text.
NoContent == [type |-> "undefined", text |-> ""]
Contents ==
    {[type |-> "string", text |-> t] : t \in {"", "{\"a\":1}", "not json"}}
        \cup {[type |-> "object", text |-> "{\"a\":1}"]}
BodyMessages == {Undefined, "", "invalid key", FailedToFetch}
Body(json, message, choices, content) ==
    [json |-> json, message |-> message, choices |-> choices, content |-> content]
Bodies ==
    {Body("invalid", Undefined, "absent", NoContent), Body("null", Undefined, "absent", NoContent)}
        \cup {Body("object", m, "absent", NoContent) : m \in BodyMessages}
        \cup {Body("object", Undefined, c, NoContent) : c \in {"empty", "nomessage", "nocontent"}}
        \cup {Body("object", Undefined, "content", c) : c \in Contents}
Statuses == {200, 401, 500}
IsOk(status) == status \in 200..299

HttpMessage(status) ==
    CASE status = 200 -> "HTTP error! status: 200"
      [] status = 401 -> "HTTP error! status: 401"
      [] status = 500 -> "HTTP error! status: 500"

\* Lines 270-273: the body is read with a fallback to {} when it is not
\* JSON, and errorData.error?.message is read from whatever was parsed.
NotOk(status, body) ==
    IF body.json = "null" THEN Thrown(Error("TypeError", NullReadMessage))
    ELSE LET message == IF body.json = "object" THEN body.message ELSE Undefined
         IN Thrown(Error("Error", IF message = Undefined \/ message = ""
                                  THEN HttpMessage(status) ELSE message))

\* Lines 275-279: data.choices[0]?.message?.content, the test !content and
\* the parse of a textual content.
Ok(body) ==
    CASE body.json = "invalid" -> Thrown(Error("SyntaxError", SyntaxMessage))
      [] body.json = "null" -> Thrown(Error("TypeError", NullReadMessage))
      [] body.json = "object" /\ body.choices = "absent" ->
            Thrown(Error("TypeError", UndefinedReadMessage))
      [] OTHER ->
            LET content == body.content
            IN IF content.type = "undefined" \/ (content.type = "string" /\ content.text = "")
               THEN Thrown(Error("Error", NoContentMessage))
               ELSE IF content.type = "string" THEN FromParse(JSONparse(content.text))
               ELSE Returned(ValueOf(content.text))

\* The catch of extractFromOpenAI (lines 280-286).
Catch(outcome) ==
    IF /\ outcome.kind = "fail"
       /\ outcome.error.class = "TypeError"
       /\ outcome.error.message = FailedToFetch
    THEN Thrown(Error("Error", NetworkMessage))
    ELSE outcome

\* processFile's try/catch (App.tsx lines 139-146) on the adapter's outcome.
RecordOutcome(doc, outcome) ==
    IF outcome.kind = "ok"
    THEN Merge(doc, [status |-> "completed", result |-> outcome.value])
    ELSE Merge(doc, [status |-> "error", error |-> ErrorMessage(outcome.error.message)])

\* The document when the adapter is called: processFile has set it to
\* processing and cleared its error; a result of an earlier extraction stays.
Priors == {NoResult, ValueOf("{}")}
Processing(prior) ==
    Merge([NewFile(1) EXCEPT !.result = prior], [status |-> "processing", error |-> Undefined])

NoResponse ==
    [kind |-> "none", status |-> 0, body |-> Body("invalid", Undefined, "absent", NoContent),
     text |-> Undefined, error |-> Error("none", "")]
Resolved(status, body, text) == [NoResponse EXCEPT !.kind = "resolved", !.status = status,
                                                   !.body = body, !.text = text]
Rejected(e) == [NoResponse EXCEPT !.kind = "rejected", !.error = e]

Extraction(route, prior) ==
    [pc |-> "requested", route |-> route, apiKey |-> Undefined, fields |-> <<>>,
     schema |-> EmptySchema, base |-> <<>>, url |-> <<>>, requests |-> 0,
     response |-> NoResponse, outcome |-> Pending, doc |-> Processing(prior)]

\* The adapter returns or throws and processFile records it.
Conclude(c, response, outcome) ==
    [c EXCEPT !.pc = "done", !.response = response, !.outcome = outcome,
              !.doc = RecordOutcome(@, outcome)]

batchVars == <<files, nextId, globalLoading, runSnapshot, toProcess, pos, inv, nInv,
               settings, envApiKey, editedSettings, lastCall, wire, activeTemplate>>

\* extractFromGemini up to its await: the key test, the schema, the request.
\* key is the value of process.env.API_KEY.
extractFromGemini(key, fields, prior) ==
    /\ call.pc = "idle"
    /\ HasKey(key) = envApiKey
    /\ LET c == [Extraction("gemini", prior) EXCEPT !.apiKey = key, !.fields = fields]
       IN call' = IF ~HasKey(key)
                  THEN Conclude(c, NoResponse, Thrown(Error("Error", MissingKeyMessage)))
                  ELSE [c EXCEPT !.schema = CompileSchema(fields), !.requests = 1]
    /\ UNCHANGED batchVars

\* generateContent resolves with a response whose text is given.
generateContentResolves(text) ==
    /\ call.pc = "requested"
    /\ call.route = "gemini"
    /\ call' = Conclude(call, Resolved(200, NoResponse.body, text), FromParse(JSONparse(text)))
    /\ UNCHANGED batchVars

\* generateContent rejects; the catch of lines 217-220 rethrows.
generateContentRejects(m) ==
    /\ call.pc = "requested"
    /\ call.route = "gemini"
    /\ call' = Conclude(call, Rejected(Error("Error", m)), Thrown(Error("Error", m)))
    /\ UNCHANGED batchVars

\* extractFromOpenAI up to its await: the URL and the request.
extractFromOpenAI(base, prior) ==
    /\ call.pc = "idle"
    /\ call' = [Extraction("openai", prior) EXCEPT !.base = base, !.url = ChatUrl(base),
                                                   !.requests = 1]
    /\ UNCHANGED batchVars

\* fetch rejects: no response was received.
fetchRejects(m) ==
    /\ call.pc = "requested"
    /\ call.route = "openai"
    /\ call' = Conclude(call, Rejected(Error("TypeError", m)),
                        Catch(Thrown(Error("TypeError", m))))
    /\ UNCHANGED batchVars

\* fetch resolves with a response.
fetchResolves(status, body) ==
    /\ call.pc = "requested"
    /\ call.route = "openai"
    /\ call' = Conclude(call, Resolved(status, body, Undefined),
                        Catch(IF IsOk(status) THEN Ok(body) ELSE NotOk(status, body)))
    /\ UNCHANGED batchVars

\* The adapters are entered only when no extraction is being followed.
NextExtract ==
    \/ /\ call.pc = "idle"
       /\ \E key \in ApiKeys, fields \in FieldLists, prior \in Priors :
             extractFromGemini(key, fields, prior)
    \/ \E text \in Texts : generateContentResolves(text)
    \/ \E m \in ProviderMessages : generateContentRejects(m)
    \/ /\ call.pc = "idle"
       /\ \E base \in Urls, prior \in Priors : extractFromOpenAI(base, prior)
    \/ \E m \in TransportMessages : fetchRejects(m)
    \/ \E status \in Statuses, body \in Bodies : fetchResolves(status, body)

SpecExtract == Init /\ [][NextExtract]_vars

----------------------------------------------------------------------------
\* The document payload in the request of each adapter (extractionService
\* lines 205 and 236).  A string is a sequence of units: "data:", a MIME
\* type, ";base64", the comma, and the characters of the base64 text.

MaxPayload == 3  \* length of the base64 text

Mimes == {"image/png", "application/pdf"}
Base64Chars == {"x", "y"}
Payloads == UNION {[1..n -> Base64Chars] : n \in 0..MaxPayload}
DataUrl(mime, payload) == <<"data:", mime, ";base64", ",">> \o payload
\* The first argument of extractData: the data URL FileReader.readAsDataURL
\* produces, or the bare base64 text.
Forms == {"dataUrl", "bare"}
Encoded(form, mime, payload) == IF form = "dataUrl" THEN DataUrl(mime, payload) ELSE payload

\* The index of the first comma of s, 0 if it has none.
FirstComma(s) ==
    IF \E i \in DOMAIN s : s[i] = ","
    THEN CHOOSE i \in DOMAIN s : s[i] = "," /\ \A j \in 1..(i - 1) : s[j] # ","
    ELSE 0

\* s.split(',')[1]: the text between the first and the second comma,
\* Undefined when s has no comma.
SecondPart(s) ==
    LET i == FirstComma(s)
        rest == SubSeq(s, i + 1, Len(s))
        j == FirstComma(rest)
    IN IF i = 0 THEN <<Undefined>>
       ELSE IF j = 0 THEN rest ELSE SubSeq(rest, 1, j - 1)

\* fileDataBase64.split(',')[1] || fileDataBase64 (line 205): the empty
\* text is falsy.
InlineData(s) ==
    IF SecondPart(s) = <<Undefined>> \/ SecondPart(s) = <<>> THEN s ELSE SecondPart(s)

\* fileDataBase64.includes(',') ? fileDataBase64 : `data:${mimeType};base64,${fileDataBase64}`
ImageUrl(s, mime) == IF FirstComma(s) # 0 THEN s ELSE DataUrl(mime, s)

otherVars == <<files, nextId, globalLoading, runSnapshot, toProcess, pos, inv, nInv,
               settings, envApiKey, editedSettings, lastCall, call, activeTemplate>>

\* extractData is called with the encoded document of a file of type mime.
encodeDocument(form, mime, payload) ==
    /\ wire.pc = "idle"
    /\ wire' = [pc |-> "encoded", form |-> form, mime |-> mime, payload |-> payload,
                base64 |-> Encoded(form, mime, payload), route |-> "none", data |-> <<>>]
    /\ UNCHANGED otherVars

\* The structured adapter builds inlineData.data.
sendInlineData ==
    /\ wire.pc = "encoded"
    /\ wire' = [wire EXCEPT !.pc = "sent", !.route = "gemini", !.data = InlineData(wire.base64)]
    /\ UNCHANGED otherVars

\* The generic chat adapter builds image_url.url.
sendImageUrl ==
    /\ wire.pc = "encoded"
    /\ wire' = [wire EXCEPT !.pc = "sent", !.route = "openai",
                            !.data = ImageUrl(wire.base64, wire.mime)]
    /\ UNCHANGED otherVars

NextPayload ==
    \/ /\ wire.pc = "idle"
       /\ \E form \in Forms, mime \in Mimes, payload \in Payloads :
             encodeDocument(form, mime, payload)
    \/ sendInlineData
    \/ sendImageUrl

SpecPayload == Init /\ [][NextPayload]_vars

----------------------------------------------------------------------------
\* Properties.

Range(q) == {q[k] : k \in DOMAIN q}
InFlight == {i \in DOMAIN inv : inv[i].pc = "extract"}
\* The activations a step starts: the last nInv' - nInv of inv'.
NewCount == nInv' - nInv
Started == {inv'[k] : k \in (Len(inv') - NewCount + 1)..Len(inv')}
\* The activations that were there before the step, as it leaves them.
Kept == SubSeq(inv', 1, Len(inv') - NewCount)
RunStarts == ~globalLoading /\ globalLoading'
\* Steps in which the awaited call of activation i fails.
Fails(i) ==
    \/ EncodeFail(i)
    \/ \E m \in ProviderMessages : ProviderFail(i, m)
    \/ EncodeDone(i) /\ extractData(inv[i].cfg) = "gemini" /\ ~envApiKey
\* Steps that activation i takes: it sends its request or it returns.
Acts(i) ==
    IF Len(Kept) = Len(inv) THEN Kept[i] # inv[i]
    ELSE Kept = Without(inv, i)

\* C1: the selection a processAll run computes at its start is exactly the
\* pending and error documents when there is one, every document when all
\* are completed, and never holds a document that is processing; for the
\* statuses [completed, error, pending] it is documents 2 and 3.
C1_SelectionPolicy ==
    [][RunStarts =>
        LET PE == {files[k].id : k \in {j \in DOMAIN files :
                        files[j].status \in {"pending", "error"}}}
        IN /\ Len(toProcess') = Cardinality(Range(toProcess'))
           /\ Range(toProcess') \subseteq Ids(files)
           /\ PE # {} => Range(toProcess') = PE
           /\ PE = {} => Range(toProcess') =
                 {files[k].id : k \in {j \in DOMAIN files : files[j].status # "processing"}}
           /\ (\A k \in DOMAIN files : files[k].status = "completed")
                 => toProcess' = IdSeq(files)
           /\ \A k \in DOMAIN files :
                 files[k].status = "processing" => files[k].id \notin Range(toProcess')
           /\ [k \in DOMAIN files |-> files[k].status] = <<"completed", "error", "pending">>
                 => toProcess' = <<files[2].id, files[3].id>>
    ]_vars

\* A run that has just started on a list of three documents, the first
\* completed, and selected the second and the third.
C1_Witness ==
    /\ globalLoading
    /\ pos = 1
    /\ Len(files) = 3
    /\ toProcess = <<files[2].id, files[3].id>>
    /\ files[1].status = "completed"
    /\ files[2].status = "processing"
    /\ files[3].status = "pending"
    /\ nInv = 3
    /\ Len(inv) = 1

C3_NoTwoOnSameDocument ==
    \A i, j \in InFlight : i # j => inv[i].doc # inv[j].doc

\* C4: a document's status changes only along pending -> processing,
\* processing -> completed, processing -> error, error -> processing and
\* completed -> processing.
StatusEdges ==
    {<<"pending", "processing">>, <<"processing", "completed">>,
     <<"processing", "error">>, <<"error", "processing">>,
     <<"completed", "processing">>}

C4_StatusEdges ==
    [][\A k \in DOMAIN files :
          files[k].id \in Ids(files') =>
             \/ Status(files', files[k].id) = files[k].status
             \/ <<files[k].status, Status(files', files[k].id)>> \in StatusEdges
    ]_vars

\* C5: when the extraction of a document of a processAll run fails, the
\* document (if still listed) gets status error and an error message, and
\* the run goes on with the next selected document; it ends only when every
\* selected document was started.
C5_FailureDoesNotAbort ==
    [][\A i \in DOMAIN inv :
          (inv[i].origin = "batch" /\ Fails(i)) =>
             /\ inv[i].doc \in Ids(files') =>
                   LET f == files'[Find(files', inv[i].doc)]
                   IN f.status = "error" /\ f.error \notin {Undefined, ""}
             /\ IF pos < Len(toProcess)
                THEN /\ globalLoading'
                     /\ pos' = pos + 1
                     /\ toProcess' = toProcess
                     /\ NewCount = 1
                     /\ \A r \in Started :
                           r.origin = "batch" /\ r.doc = toProcess[pos + 1]
                ELSE ~globalLoading' /\ NewCount = 0
    ]_vars

\* The first document of a run has failed and the run is at its second.
C5_Witness ==
    /\ globalLoading
    /\ pos = 2
    /\ nInv = 2
    /\ Len(inv) = 1
    /\ inv[1].origin = "batch"
    /\ inv[1].doc = toProcess[2]
    /\ toProcess[1] \in Ids(files)
    /\ Status(files, toProcess[1]) = "error"

\* C6: a processAll run issues no extraction request for a document that
\* was removed from the list before the run reached it.
C6_RemovedNotExtracted ==
    \A i \in DOMAIN inv :
        (inv[i].origin = "batch" /\ ~inv[i].listed) => inv[i].requests = 0

\* C7: a processAll run starts its selected documents one at a time, in
\* the order of the document list, and starts a document only when every
\* earlier activation of the run has returned and the previous document's
\* outcome is recorded.
C7_InOrderOneAtATime ==
    [][(\E r \in Started : r.origin = "batch") =>
          LET before == IF globalLoading THEN pos ELSE 0
          IN /\ NewCount = 1
             /\ pos' = before + 1
             /\ inv'[Len(inv')].doc = toProcess'[pos']
             /\ \A a, b \in DOMAIN toProcess' :
                   a < b => Find(runSnapshot'.files, toProcess'[a])
                              < Find(runSnapshot'.files, toProcess'[b])
             /\ Range(toProcess') \subseteq Ids(runSnapshot'.files)
             /\ \A k \in DOMAIN Kept : Kept[k].origin # "batch"
             /\ (before >= 1 /\ toProcess'[before] \in Ids(files')) =>
                   Status(files', toProcess'[before]) \in {"completed", "error"}
    ]_vars

\* A run at its second document, the first one's outcome recorded.
C7_Witness ==
    /\ globalLoading
    /\ pos = 2
    /\ \E i \in DOMAIN inv : inv[i].origin = "batch" /\ inv[i].doc = toProcess[2]
    /\ toProcess[1] \in Ids(files)
    /\ Status(files, toProcess[1]) = "completed"

\* C8: a step of a processAll run leaves the record of every document the
\* run did not select unchanged, and every status update changes only the
\* record of the document it names: a step that neither adds nor removes a
\* document keeps the order of the list and changes only records of
\* documents whose activation it starts or continues.
BatchActs ==
    \/ \E i \in DOMAIN inv : inv[i].origin = "batch" /\ Acts(i)
    \/ \E r \in Started : r.origin = "batch"

Named == {inv[i].doc : i \in {n \in DOMAIN inv : Acts(n)}} \cup {r.doc : r \in Started}

C8_Frame ==
    [][/\ BatchActs =>
            LET sel == IF globalLoading THEN toProcess ELSE toProcess'
            IN /\ Len(files') = Len(files)
               /\ \A k \in DOMAIN files :
                     files[k].id \notin Range(sel) => files'[k] = files[k]
       /\ (Named # {} \/ Len(files') = Len(files)) =>
            /\ IdSeq(files') = IdSeq(files)
            /\ \A k \in DOMAIN files :
                  files'[k] # files[k] => files[k].id \in Named
    ]_vars

\* A run at its second document beside a completed document it did not
\* select.
C8_Witness ==
    /\ globalLoading
    /\ pos = 2
    /\ \E k \in DOMAIN files :
          /\ files[k].id \notin Range(toProcess)
          /\ files[k].status = "completed"
          /\ files[k].result = ResultOf(files[k].id)

\* C9: extractData routes to the generic chat adapter only when the
\* provider tag is 'openai' and endpointBase, apiKey and modelName are all
\* non-empty, and to the structured adapter in every other case.
C9_RoutesOnCompleteConfig ==
    lastCall.called =>
        (lastCall.route = "openai" <=>
            /\ lastCall.settings.provider = "openai"
            /\ lastCall.settings.openai.present
            /\ lastCall.settings.openai.baseUrl # ""
            /\ lastCall.settings.openai.apiKey # ""
            /\ lastCall.settings.openai.model # "")

\* C10: an activation is not started (encode), then in flight with exactly
\* one provider request out (extract), then returns with one outcome
\* recorded (completed or error; error when it never sent a request); a
\* request is never sent twice and an activation that has returned does not
\* come back: a step leaves the activations as they were, or sends the
\* request of one, or lets one return, and the ones it starts are new.
C10_InvocationLifecycle ==
    [][/\ NewCount >= 0
       /\ Len(inv') >= NewCount
       /\ \A r \in Range(inv') :
            /\ r.pc \in {"encode", "extract"}
            /\ r.requests = IF r.pc = "extract" THEN 1 ELSE 0
       /\ \A r \in Started : r.pc = "encode"
       /\ \/ Kept = inv
          \/ \E i \in DOMAIN inv :
                /\ inv[i].pc = "encode"
                /\ Len(Kept) = Len(inv)
                /\ Kept = [inv EXCEPT ![i] = IssueRequest(inv[i], Kept[i].route)]
          \/ \E i \in DOMAIN inv :
                /\ Kept = Without(inv, i)
                /\ inv[i].doc \in Ids(files') =>
                      Status(files', inv[i].doc) =
                         IF inv[i].pc = "encode" \/ Fails(i) THEN "error" ELSE "completed"
    ]_vars

\* Every activation has returned, one with a result and one with the
\* provider's error.
C10_Witness ==
    /\ nInv >= 2
    /\ inv = <<>>
    /\ \E k \in DOMAIN files :
          files[k].status = "completed" /\ files[k].result = ResultOf(files[k].id)
    /\ \E k \in DOMAIN files :
          files[k].status = "error" /\ files[k].error = "provider error"

----------------------------------------------------------------------------
\* Properties of the adapters.

Done(route) == call.pc = "done" /\ call.route = route

\* C11: when an adapter fails, the error recorded for the document is
\* exactly the message of the adapter's error, an empty message included.
C11_MessageVerbatim ==
    (call.pc = "done" /\ call.outcome.kind = "fail") =>
        /\ call.doc.status = "error"
        /\ call.doc.error = call.outcome.error.message

\* C12: with the structured provider and a missing or empty API key the
\* extraction fails with the configuration error, no request is issued and
\* the document ends in status error.
C12_MissingKeyFailsFast ==
    (call.pc # "idle" /\ call.route = "gemini" /\ call.apiKey \in {Undefined, ""}) =>
        /\ call.pc = "done"
        /\ call.outcome.kind = "fail"
        /\ call.outcome.error.message = MissingKeyMessage
        /\ call.requests = 0
        /\ call.response.kind = "none"
        /\ call.doc.status = "error"
        /\ call.doc.error = MissingKeyMessage

\* The structured adapter was called with an empty key and a template of
\* two fields.
C12_Witness ==
    /\ Done("gemini")
    /\ call.apiKey = ""
    /\ Len(call.fields) = 2
    /\ call.doc.status = "error"

\* C13: when the structured provider returns empty response text, the
\* adapter treats it as the object {} and the outcome is a success.
C13_EmptyTextIsEmptyObject ==
    (Done("gemini") /\ call.response.kind = "resolved" /\ call.response.text \in {"", Undefined}) =>
        /\ call.outcome.kind = "ok"
        /\ call.outcome.value = ValueOf("{}")
        /\ call.doc.status = "completed"

\* The structured adapter has compiled the schema of its field list.
Compiled == call.pc # "idle" /\ call.route = "gemini" /\ HasKey(call.apiKey)
KeysOf(fields) == {fields[i].key : i \in DOMAIN fields}

\* C14: the required list holds every field's key in declaration order, its
\* contents are the set of field keys, without duplicates when the keys are
\* unique, every required key has a descriptor in properties, and an empty
\* field list gives empty properties and an empty required list.
C14_RequiredMatchesFields ==
    Compiled =>
        LET fields == call.fields
            schema == call.schema
        IN /\ schema.required = [i \in DOMAIN fields |-> fields[i].key]
           /\ Range(schema.required) = KeysOf(fields)
           /\ Cardinality(KeysOf(fields)) = Len(fields)
                 => Cardinality(Range(schema.required)) = Len(schema.required)
           /\ \A k \in Range(schema.required) : k \in DOMAIN schema.properties
           /\ fields = <<>> => schema.properties = <<>> /\ schema.required = <<>>

\* C15: each of the five declared kinds is mapped to its primitive, and a
\* field of any other kind makes the compilation fail before a request is
\* issued.
C15_ExhaustiveKinds ==
    Compiled =>
        LET fields == call.fields
            props == call.schema.properties
            Primitive == {<<"STRING", "STRING", "none">>, <<"NUMBER", "NUMBER", "none">>,
                          <<"BOOLEAN", "BOOLEAN", "none">>, <<"ARRAY_STRING", "ARRAY", "STRING">>,
                          <<"ARRAY_NUMBER", "ARRAY", "NUMBER">>}
        IN /\ \A i \in DOMAIN fields :
                 (/\ fields[i].type \in FieldTypes
                  /\ \A j \in DOMAIN fields : j > i => fields[j].key # fields[i].key)
                    => /\ fields[i].key \in DOMAIN props
                       /\ <<fields[i].type, props[fields[i].key].type,
                            props[fields[i].key].items>> \in Primitive
           /\ (\E i \in DOMAIN fields : fields[i].type \notin FieldTypes)
                 => /\ call.pc = "done"
                    /\ call.outcome.kind = "fail"
                    /\ call.requests = 0

\* The generic chat adapter has computed its request URL.
Normalized == call.pc # "idle" /\ call.route = "openai"

\* C16: the request URL is the base with trailing slashes trimmed and the
\* suffix /chat/completions appended only if it is not already there:
\* https://api.example.com/v1 gets the suffix, and
\* https://api.example.com/v1/chat/completions is left as it is, also when
\* it is followed by one or more slashes.
C16_SuffixAppendedOnce ==
    Normalized =>
        LET trimmed == StripSlashes(Trim(call.base))
        IN /\ call.url = IF EndsWith(trimmed, Suffix) THEN trimmed ELSE trimmed \o Suffix
           /\ call.base = <<"B">> => call.url = <<"B", "/", "C">>
           /\ StripSlashes(call.base) = <<"B", "/", "C">> => call.url = <<"B", "/", "C">>

\* C17: the URL normalizer applied to its own output returns that output.
C17_NormalizerIdempotent ==
    Normalized => ChatUrl(call.url) = call.url

\* A base ending in a slash was given the suffix.
C17_Witness ==
    /\ Normalized
    /\ call.base = <<"B", "/">>
    /\ call.url = <<"B", "/", "C">>

\* The generic chat adapter has received an HTTP response.
Answered == Done("openai") /\ call.response.kind = "resolved"

\* C18: on a non-2xx response the outcome is a failure whose message is the
\* error message of the body when the body is JSON carrying one, and the
\* generic message naming the status otherwise; 401 with the body
\* {"error":{"message":"invalid key"}} gives 'invalid key'; the document
\* gets status error and no result is recorded for it.
C18_HttpErrorMessage ==
    [][(/\ call.pc = "requested"
        /\ call.route = "openai"
        /\ call'.response.kind = "resolved"
        /\ ~IsOk(call'.response.status)) =>
          LET body == call'.response.body
              carried == body.json = "object" /\ body.message \notin {Undefined, ""}
              message == IF carried THEN body.message ELSE HttpMessage(call'.response.status)
          IN /\ call'.outcome.kind = "fail"
             /\ call'.outcome.error.message = message
             /\ (call'.response.status = 401 /\ carried /\ body.message = "invalid key")
                   => call'.outcome.error.message = "invalid key"
             /\ call'.doc.status = "error"
             /\ call'.doc.error = message
             /\ call'.doc.result = call.doc.result
    ]_vars

\* C19: a transport failure (fetch rejects, no response received) gives a
\* failure with the connectivity-guidance message, whatever the failure;
\* that message is never the outcome of a call that received a response.
C19_TransportGuidance ==
    Done("openai") =>
        /\ call.response.kind = "rejected" =>
              /\ call.outcome.kind = "fail"
              /\ call.outcome.error.message = NetworkMessage
              /\ call.doc.error = NetworkMessage
        /\ call.response.kind = "resolved" =>
              call.outcome.error.message # NetworkMessage

\* C20: on a 2xx response with a JSON object as body: absent content (no
\* choices field, empty choices, no message, no content) is a failure with
\* the 'no content' error; a textual content is parsed as JSON and a parse
\* failure is a failure; a structured content is returned as it is.
C20_ContentHandling ==
    (Answered /\ IsOk(call.response.status) /\ call.response.body.json = "object") =>
        LET body == call.response.body
            content == body.content
        IN /\ body.choices # "content" =>
                 /\ call.outcome.kind = "fail"
                 /\ call.outcome.error.message = NoContentMessage
           /\ (body.choices = "content" /\ content.type = "string") =>
                 IF content.text \in JsonTexts
                 THEN call.outcome = Returned(ValueOf(content.text))
                 ELSE call.outcome.kind = "fail"
           /\ (body.choices = "content" /\ content.type = "object") =>
                 call.outcome = Returned(ValueOf(content.text))

\* The structured adapter returned a parsed response.
Parsed == Done("gemini") /\ call.outcome.kind = "ok"

\* C21: in every successful result each field key of the template has an
\* entry; a field the provider left out is there with the value null.
C21_EveryFieldHasEntry ==
    Parsed =>
        \A k \in KeysOf(call.fields) : k \in DOMAIN Entries(call.doc.result)

\* C22: when the provider response holds exactly the keys of the field
\* list, the result recorded for the document has the same keys and the
\* same values as the response; {"a": 12, "b": null} for the fields a and b
\* (width and notes) gives the result {a: 12, b: null}.
C22_RoundTrip ==
    (/\ Parsed
     /\ DOMAIN Entries(ValueOf(call.response.text)) = KeysOf(call.fields)) =>
        /\ call.doc.status = "completed"
        /\ DOMAIN Entries(call.doc.result) = KeysOf(call.fields)
        /\ Entries(call.doc.result) = Entries(ValueOf(call.response.text))
        /\ call.response.text = "{\"a\":12,\"b\":null}" =>
              /\ Entries(call.doc.result)["a"] = "12"
              /\ Entries(call.doc.result)["b"] = "null"

\* The response {"a": 12, "b": null} was recorded for the fields a and b.
C22_Witness ==
    /\ Parsed
    /\ [i \in DOMAIN call.fields |-> call.fields[i].key] = <<"a", "b">>
    /\ call.response.text = "{\"a\":12,\"b\":null}"
    /\ call.doc.result = ValueOf("{\"a\":12,\"b\":null}")

\* C23: for a payload given as bare base64 or as a data URL, the generic
\* chat adapter sends the data URL data:<mime>;base64,<payload> (never
\* prefixed twice) and the structured adapter sends the bare payload with
\* no data: prefix; both send the same payload.
C23_PayloadForms ==
    wire.pc = "sent" =>
        /\ wire.route = "openai" => wire.data = DataUrl(wire.mime, wire.payload)
        /\ wire.route = "gemini" => wire.data = wire.payload

----------------------------------------------------------------------------
\* Properties of the batch runner, continued.

BatchLive == {i \in DOMAIN inv : inv[i].origin = "batch"}
\* The step in which activation i returns.
Returns(i) == Len(Kept) < Len(inv) /\ Kept = Without(inv, i)

\* C24: the in-progress flag is changed only by processAll: it is set by
\* the click that starts a run and reset by the run when its last selected
\* document has an outcome; it is true exactly while a run has a document
\* under way; while it is true the batch button is disabled and no second
\* run starts, so two runs never overlap.
C24_FlagOwnedByRun ==
    [][/\ (~globalLoading /\ globalLoading') => processAll
       /\ (globalLoading /\ ~globalLoading') =>
             \E i \in BatchLive : Returns(i) /\ pos = Len(toProcess)
       /\ globalLoading =>
             /\ pos \in 1..Len(toProcess)
             /\ Cardinality(BatchLive) = 1
             /\ \A i \in BatchLive : inv[i].doc = toProcess[pos]
             /\ processAllDisabled
             /\ ~processAll
             /\ globalLoading' => toProcess' = toProcess /\ pos' \in {pos, pos + 1}
             /\ (\E i \in BatchLive : Returns(i)) /\ pos = Len(toProcess) => ~globalLoading'
       /\ ~globalLoading => BatchLive = {} /\ pos = 0
    ]_vars

\* A run of three documents at its last document.
C24_Witness ==
    /\ globalLoading
    /\ Len(toProcess) = 3
    /\ pos = 3
    /\ \E i \in BatchLive : inv[i].doc = toProcess[3]

\* C25: a request is in flight for a document only while its status is
\* processing: no request is in flight for a listed document whose status
\* is pending, completed or error.
C25_InFlightOnlyWhileProcessing ==
    \A i \in InFlight :
        inv[i].doc \in Ids(files) => Status(files, inv[i].doc) = "processing"

\* C26: a completed document has a result and no error message, and an
\* error message is present only on a document whose status is error.
C26_ResultAndErrorMatchStatus ==
    \A k \in DOMAIN files :
        /\ files[k].status = "completed" =>
              files[k].result # NoResult /\ files[k].error = Undefined
        /\ files[k].error # Undefined => files[k].status = "error"

\* C29: a removed document never reappears in the list: the list holds
\* only documents that were added and not removed, each once, and when an
\* activation on a removed document returns, its status update changes
\* nothing (a step changes only records of documents it starts, or of the
\* listed document whose activation it continues).
C29_RemovedStaysRemoved ==
    [][/\ \A id \in 1..nextId : id \notin Ids(files) => id \notin Ids(files')
       /\ Ids(files') \subseteq Ids(files) \cup ((nextId + 1)..nextId')
       /\ Ids(files') \subseteq 1..nextId'
       /\ Len(files') = Cardinality(Ids(files'))
       /\ \A i \in DOMAIN inv :
             (Acts(i) /\ inv[i].doc \notin Ids(files)) =>
                /\ Len(files') = Len(files)
                /\ \A k \in DOMAIN files :
                      files'[k] # files[k] => files[k].id \in {r.doc : r \in Started}
    ]_vars

\* A request is in flight for a document that was listed when its
\* activation started and has been removed since.
C29_Witness ==
    \E i \in InFlight : inv[i].listed /\ inv[i].doc \notin Ids(files)

\* C30: a document added while a run is in progress is not processed by
\* that run: the run's selection stays the one computed at its start, the
\* run starts only documents of it and ends when all of them were started,
\* and the added document stays pending unless a manual processFile starts
\* it.
C30_AddedDuringRunNotProcessed ==
    [][/\ (globalLoading /\ globalLoading') =>
             toProcess' = toProcess /\ runSnapshot' = runSnapshot
       /\ \A r \in Started :
             r.origin = "batch" =>
                r.doc \in Range(toProcess') /\ r.doc \in Ids(runSnapshot'.files)
       /\ (globalLoading /\ ~globalLoading') => pos = Len(toProcess)
       /\ \A k \in DOMAIN files :
             (/\ globalLoading
              /\ files[k].id \notin Ids(runSnapshot.files)
              /\ files[k].status = "pending"
              /\ files[k].id \in Ids(files')) =>
                \/ Status(files', files[k].id) = "pending"
                \/ \E r \in Started : r.origin = "manual" /\ r.doc = files[k].id
    ]_vars

\* A run at the last of its two documents beside a pending document that
\* was added after the run started.
C30_Witness ==
    /\ globalLoading
    /\ Len(toProcess) = 2
    /\ pos = 2
    /\ \E k \in DOMAIN files :
          files[k].id \notin Ids(runSnapshot.files) /\ files[k].status = "pending"

\* C27: provided every payload encoding and provider call returns or
\* throws, every listed document in status processing eventually is
\* completed or error (or is removed), and every processAll run eventually
\* resets the in-progress flag.
C27_EventuallySettled ==
    /\ \A id \in 1..MaxDocs :
          (id \in Ids(files) /\ Status(files, id) = "processing")
             ~> (id \notin Ids(files) \/ Status(files, id) \in {"completed", "error"})
    /\ globalLoading ~> ~globalLoading

\* Three documents were started and all of them have an outcome, one a
\* result and one an error.
C27_Witness ==
    /\ ~globalLoading
    /\ inv = <<>>
    /\ nInv = 3
    /\ Len(files) = 3
    /\ \A k \in DOMAIN files : files[k].status \in {"completed", "error"}
    /\ \E k \in DOMAIN files : files[k].status = "completed"
    /\ \E k \in DOMAIN files : files[k].status = "error"

\* C28: every document of one processAll run is extracted with the template
\* and the settings that were active when the run started, whatever is
\* selected, edited or saved while the run is in progress.
C28_RunUsesConfigOfItsStart ==
    [][/\ RunStarts =>
             /\ runSnapshot'.settings = settings
             /\ runSnapshot'.template = activeTemplate
       /\ (globalLoading /\ globalLoading') => runSnapshot' = runSnapshot
       /\ \A r \in Started :
             r.origin = "batch" =>
                /\ r.cfg = runSnapshot'.settings
                /\ r.tpl = runSnapshot'.template
       /\ \A i \in BatchLive :
             /\ inv[i].cfg = runSnapshot.settings
             /\ inv[i].tpl = runSnapshot.template
             /\ inv[i].pc = "extract" => inv[i].route = extractData(runSnapshot.settings)
    ]_vars

\* The second document of a run is being extracted by the adapter of the
\* settings of the run's start, after both the settings and the active
\* template have changed.
C28_Witness ==
    /\ globalLoading
    /\ pos = 2
    /\ settings # runSnapshot.settings
    /\ activeTemplate # runSnapshot.template
    /\ \E i \in BatchLive :
          /\ inv[i].pc = "extract"
          /\ inv[i].tpl = runSnapshot.template
          /\ inv[i].route = extractData(runSnapshot.settings)
          /\ inv[i].route # extractData(settings)

====
